---- MODULE Spec2Model ----
(***************************************************************************)
(* Model of the panic handler of panic-semihosting (src/lib.rs).           *)
(*                                                                         *)
(* panic_fmt(args, file, line, col) -> ! runs, in program order:           *)
(*   interrupt::disable();                                                 *)
(*   if let Ok(mut hstdout) = hio::hstdout() {                             *)
(*       (|| { write_str("panicked at '")?; write_fmt(args)?;              *)
(*             write_str("', ")?; write_str(file)?;                        *)
(*             writeln!(hstdout, ":{}:{}", line, col) })().ok();           *)
(*   }                                                                     *)
(*   asm::bkpt();                                                          *)
(*   loop {}                                                               *)
(*                                                                         *)
(* Text is a sequence of one-character strings.  The host side of the      *)
(* semihosting channel is the variable host: the characters the host has   *)
(* accepted so far.  trace is the history of the observable actions.       *)
(***************************************************************************)
EXTENDS Integers, Sequences, FiniteSets, TLC

VARIABLES
    pc,       \* the statement panic_fmt executes next
    primask,  \* TRUE iff the maskable interrupts are disabled (PRIMASK set)
    hstdout,  \* result of hio::hstdout(): "None" (not called), "Ok", "Err"
    res,      \* result of the writing closure: "None" (not finished), "Ok", "Err"
    host,     \* the characters the host channel has accepted
    trace,    \* the observable actions so far, oldest first
    args,     \* payload: the formatted panic message
    file,     \* payload: the source file name
    line,     \* payload: the line number
    col       \* payload: the column number

vars == <<pc, primask, hstdout, res, host, trace, args, file, line, col>>

payload == <<args, file, line, col>>

------------------------------------------------------------------------------
(* Bounds of the model *)

\* The largest line number a panic is raised at.
MaxLine == 10

\* The largest column number a panic is raised at.
MaxCol == 12

\* The number of interrupt service routines that may be pending.
MaxIsr == 2

------------------------------------------------------------------------------
(* The payloads *)

Msgs == { <<>>, <<"F", "O", "O">>, <<"'", ",", " ">> }

Files == { <<>>, <<"m", ".", "r", "s">> }

Lines == {0, 6, MaxLine}

Cols == {0, 5, MaxCol}

------------------------------------------------------------------------------
(* Formatting *)

DigitChar == <<"0", "1", "2", "3", "4", "5", "6", "7", "8", "9">>

\* Display of a u32: its decimal digits, most significant first, no padding.
RECURSIVE Dec(_)
Dec(n) ==
    IF n < 10 THEN <<DigitChar[n + 1]>>
    ELSE Dec(n \div 10) \o <<DigitChar[(n % 10) + 1]>>

\* "panicked at '"
PanickedAt ==
    <<"p", "a", "n", "i", "c", "k", "e", "d", " ", "a", "t", " ", "'">>

\* "', "
QuoteCommaSpace == <<"'", ",", " ">>

\* format_args!(":{}:{}\n", line, col), what writeln! hands to write_fmt
LocLn(l, c) == <<":">> \o Dec(l) \o <<":">> \o Dec(c) \o <<"\n">>

------------------------------------------------------------------------------
(* The observable actions *)

WriteEv == <<"write1", "write2", "write3", "write4", "write5">>

WriteEvs == {WriteEv[k] : k \in 1..5}

\* The statement that performs the k-th write.
WritePc == <<"w1", "w2", "w3", "w4", "w5">>

\* The stream hio::hstdout() opens.
OpenEv == "open_stdout"

OpenEvs == {"open_stdout", "open_stderr"}

PcSet == {"disable", "open", "w1", "w2", "w3", "w4", "w5", "bkpt", "loop",
          "returned"}

------------------------------------------------------------------------------
(* The state at the entry of panic_fmt *)

Init ==
    /\ pc = "disable"
    /\ primask \in BOOLEAN
    /\ hstdout = "None"
    /\ res = "None"
    /\ host = <<>>
    /\ trace = <<>>
    /\ args \in Msgs
    /\ file \in Files
    /\ line \in Lines
    /\ col \in Cols

------------------------------------------------------------------------------
(* The statements of panic_fmt *)

\* A mutant: the handler forgets to mask the interrupts.
InterruptDisable_NoMask ==
    /\ pc = "disable"
    /\ pc' = "open"
    /\ trace' = Append(trace, "cpsid")
    /\ UNCHANGED <<primask, hstdout, res, host, payload>>

\* A mutant: the channel is opened before the interrupts are masked.
InterruptDisable_Late ==
    /\ pc = "disable"
    /\ pc' = "open"
    /\ primask' = TRUE
    /\ trace' = Append(Append(trace, OpenEv), "cpsid")
    /\ UNCHANGED <<hstdout, res, host, payload>>

\* interrupt::disable()
InterruptDisable ==
    /\ pc = "disable"
    /\ pc' = "open"
    /\ primask' = TRUE
    /\ trace' = Append(trace, "cpsid")
    /\ UNCHANGED <<hstdout, res, host, payload>>

\* A mutant: a failed open is retried.
HStdoutOpen_Retry ==
    /\ pc = "open"
    /\ trace' = Append(trace, OpenEv)
    /\ \/ /\ hstdout' = "Ok"
          /\ pc' = "w1"
       \/ /\ hstdout' = "Err"
          /\ pc' = IF hstdout = "Err" THEN "bkpt" ELSE "open"
    /\ UNCHANGED <<primask, res, host, payload>>

\* if let Ok(mut hstdout) = hio::hstdout() { ... }
HStdoutOpen ==
    /\ pc = "open"
    /\ trace' = Append(trace, OpenEv)
    /\ \/ /\ hstdout' = "Ok"
          /\ pc' = "w1"
       \/ /\ hstdout' = "Err"
          /\ pc' = "bkpt"
    /\ UNCHANGED <<primask, res, host, payload>>

\* How many characters of s the host may have accepted when the write of s
\* reports an error: fewer than all of them.
FailKeep(s) == 0..(IF Len(s) = 0 THEN 0 ELSE Len(s) - 1)

\* A mutant: the error of a write is dropped on the spot and the closure
\* goes on with the next write.
WriteStep_NoShortCircuit(k, s, next) ==
    /\ pc = WritePc[k]
    /\ trace' = Append(trace, WriteEv[k])
    /\ \/ /\ host' = host \o s
          /\ res' = IF k = 5 /\ res = "None" THEN "Ok" ELSE res
       \/ /\ \E n \in FailKeep(s) : host' = host \o SubSeq(s, 1, n)
          /\ res' = "Err"
    /\ pc' = next
    /\ UNCHANGED <<primask, hstdout, payload>>

\* A mutant: the error of a write escapes the handler past the breakpoint.
WriteStep_Escalate(k, s, next) ==
    /\ pc = WritePc[k]
    /\ trace' = Append(trace, WriteEv[k])
    /\ \/ /\ host' = host \o s
          /\ pc' = next
          /\ res' = IF k = 5 THEN "Ok" ELSE res
       \/ /\ \E n \in FailKeep(s) : host' = host \o SubSeq(s, 1, n)
          /\ pc' = "loop"
          /\ res' = "Err"
    /\ UNCHANGED <<primask, hstdout, payload>>

\* One statement of the closure, `hstdout.write_..(s)?` (the last one without
\* the `?`: its result is the closure's).  On Ok the closure goes on to next;
\* on Err it returns the error at once, and `.ok()` drops it.
WriteStep(k, s, next) ==
    /\ pc = WritePc[k]
    /\ trace' = Append(trace, WriteEv[k])
    /\ \/ /\ host' = host \o s
          /\ pc' = next
          /\ res' = IF k = 5 THEN "Ok" ELSE res
       \/ /\ \E n \in FailKeep(s) : host' = host \o SubSeq(s, 1, n)
          /\ pc' = "bkpt"
          /\ res' = "Err"
    /\ UNCHANGED <<primask, hstdout, payload>>

\* hstdout.write_str("panicked at '")?
WritePanickedAt == WriteStep(1, PanickedAt, "w2")

\* hstdout.write_fmt(args)?
WriteArgs == WriteStep(2, args, "w3")

\* A mutant: the closing quote of the message is left out.
WriteQuoteCommaSpace_NoQuote == WriteStep(3, <<",", " ">>, "w4")

\* hstdout.write_str("', ")?
WriteQuoteCommaSpace == WriteStep(3, QuoteCommaSpace, "w4")

\* hstdout.write_str(file)?
WriteFile == WriteStep(4, file, "w5")

\* A mutant: line and column are swapped.
WriteLoc_Swapped == WriteStep(5, LocLn(col, line), "bkpt")

\* writeln!(hstdout, ":{}:{}", line, col)
WriteLoc == WriteStep(5, LocLn(line, col), "bkpt")

\* A mutant: the breakpoint is skipped.
Bkpt_Skipped ==
    /\ pc = "bkpt"
    /\ pc' = "loop"
    /\ UNCHANGED <<primask, hstdout, res, host, trace, payload>>

\* asm::bkpt()
Bkpt ==
    /\ pc = "bkpt"
    /\ pc' = "loop"
    /\ trace' = Append(trace, "bkpt")
    /\ UNCHANGED <<primask, hstdout, res, host, payload>>

\* A mutant: the handler returns to its caller.
Loop_Returns ==
    /\ pc = "loop"
    /\ pc' = "returned"
    /\ UNCHANGED <<primask, hstdout, res, host, trace, payload>>

\* loop {}
Loop ==
    /\ pc = "loop"
    /\ pc' = "loop"
    /\ UNCHANGED <<primask, hstdout, res, host, trace, payload>>

\* A pending interrupt is taken: its service routine runs between two
\* statements of panic_fmt.  The processor takes it only while the
\* interrupts are not masked.
Isr ==
    /\ ~primask
    /\ Cardinality({i \in 1..Len(trace) : trace[i] = "isr"}) < MaxIsr
    /\ trace' = Append(trace, "isr")
    /\ UNCHANGED <<pc, primask, hstdout, res, host, payload>>

Next ==
    \/ InterruptDisable
    \/ HStdoutOpen
    \/ WritePanickedAt
    \/ WriteArgs
    \/ WriteQuoteCommaSpace
    \/ WriteFile
    \/ WriteLoc
    \/ Bkpt
    \/ Loop
    \/ Isr

Spec == Init /\ [][Next]_vars

\* The processor executes the handler's statements one after the other.
FairSpec == Spec /\ WF_vars(Next)

------------------------------------------------------------------------------
(* Notions the properties are stated with *)

\* The places of the trace where an action of the set S happened.
Positions(S) == {i \in 1..Len(trace) : trace[i] \in S}

Count(S) == Cardinality(Positions(S))

IsHandlerEv(e) == e # "isr"

\* The observable actions of panic_fmt itself, oldest first.
HandlerTrace == SelectSeq(trace, IsHandlerEv)

IsPrefix(s, t) == Len(s) <= Len(t) /\ s = SubSeq(t, 1, Len(s))

\* The report line of a payload: panicked at '<m>', <f>:<l>:<c> and a newline.
Report(m, f, l, c) ==
    PanickedAt \o m \o <<"'", ",", " ">> \o f
        \o <<":">> \o Dec(l) \o <<":">> \o Dec(c) \o <<"\n">>

\* The five segments of the report, in the order of the writes.
Segment(k) ==
    CASE k = 1 -> PanickedAt
      [] k = 2 -> args
      [] k = 3 -> <<"'", ",", " ">>
      [] k = 4 -> file
      [] k = 5 -> <<":">> \o Dec(line) \o <<":">> \o Dec(col) \o <<"\n">>

RECURSIVE Segments(_)
Segments(k) == IF k = 0 THEN <<>> ELSE Segments(k - 1) \o Segment(k)

\* The handler's actions up to k writes: the interrupt mask, the open, the
\* writes 1..k in order.
RECURSIVE WritesUpTo(_)
WritesUpTo(k) ==
    IF k = 0 THEN <<"cpsid", OpenEv>> ELSE Append(WritesUpTo(k - 1), WriteEv[k])

HasQuotedSegment(t) ==
    \E i, j \in 1..Len(t) : i < j /\ t[i] = "'" /\ t[j] = "'"

EndsWith(t, s) ==
    Len(s) <= Len(t) /\ SubSeq(t, Len(t) - Len(s) + 1, Len(t)) = s

------------------------------------------------------------------------------
(* C1 *)

\* C1: disabling the interrupts is the first observable action of panic_fmt:
\* every channel open, channel write and breakpoint is preceded by it, and
\* the interrupts are masked in every state after the first statement.
C1_DisableFirst ==
    /\ HandlerTrace # <<>> => HandlerTrace[1] = "cpsid"
    /\ \A i \in Positions(OpenEvs \cup WriteEvs \cup {"bkpt"}) :
           \E j \in 1..(i - 1) : trace[j] = "cpsid"
    /\ Positions(OpenEvs \cup WriteEvs \cup {"bkpt"}) # {} => primask

C1_Witness ==
    /\ trace # <<>> /\ trace[1] = "isr"
    /\ Count(OpenEvs) = 1
    /\ Count(WriteEvs) = 5
    /\ Count({"bkpt"}) = 1

------------------------------------------------------------------------------
(* C2 *)

\* C2: when the open and all five writes succeed, the text the channel has
\* accepted is exactly panicked at '<message>', <file>:<line>:<col> and a
\* newline; for the payload FOO, m.rs, 6, 5 it is panicked at 'FOO', m.rs:6:5.
C2_ReportText ==
    res = "Ok" =>
        /\ host = Report(args, file, line, col)
        /\ (args = <<"F", "O", "O">> /\ file = <<"m", ".", "r", "s">>
                /\ line = 6 /\ col = 5)
           => host = <<"p", "a", "n", "i", "c", "k", "e", "d", " ", "a", "t",
                       " ", "'", "F", "O", "O", "'", ",", " ", "m", ".", "r",
                       "s", ":", "6", ":", "5", "\n">>

C2_Witness ==
    /\ res = "Ok"
    /\ args = <<"F", "O", "O">>
    /\ file = <<"m", ".", "r", "s">>
    /\ line = 6
    /\ col = 5
    /\ pc = "loop"

------------------------------------------------------------------------------
(* C3 *)

\* C3: panic_fmt never returns, whatever the payload and the outcomes of the
\* open and the writes, and once it is in the final loop nothing changes any
\* more: no channel operation, no breakpoint, no change of the interrupt mask.
C3_NeverReturns ==
    /\ [](pc \in PcSet \ {"returned"})
    /\ [][pc = "loop" => vars' = vars]_vars

C3_Witness ==
    /\ pc = "loop"
    /\ args = <<>>
    /\ file = <<>>
    /\ line = 0
    /\ col = 0
    /\ res = "Err"

------------------------------------------------------------------------------
(* C4 *)

\* C4: the open is attempted at most once; when it fails nothing is written
\* to the channel, no other channel is opened, and the handler goes on to the
\* breakpoint and then into the loop.
C4_OpenFails ==
    /\ [](Count(OpenEvs) <= 1)
    /\ [](hstdout = "Err" =>
            /\ host = <<>>
            /\ Count(WriteEvs) = 0
            /\ Count(OpenEvs) = 1
            /\ pc \in {"bkpt", "loop"}
            /\ pc = "loop" => trace[Len(trace)] = "bkpt")
    /\ (hstdout = "Err" ~> (pc = "loop" /\ Count({"bkpt"}) = 1))

C4_Witness ==
    /\ hstdout = "Err"
    /\ pc = "loop"
    /\ trace[Len(trace)] = "bkpt"

------------------------------------------------------------------------------
(* C5 *)

\* C5: a write error is discarded: after the failing write no write is
\* attempted again, the handler does not return or stop, and it executes the
\* breakpoint once and enters the loop, as it does when every write succeeds.
C5_WriteErrorDiscarded ==
    /\ [](res = "Err" =>
            /\ pc \in {"bkpt", "loop"}
            /\ \A k \in 1..5 : Count({WriteEv[k]}) <= 1
            /\ pc = "loop" => Count({"bkpt"}) = 1)
    /\ [][res = "Err" => (host' = host /\ Count(WriteEvs)' = Count(WriteEvs))]_vars
    /\ (res = "Err" ~> (pc = "loop" /\ Count({"bkpt"}) = 1))
    /\ (res = "Ok" ~> (pc = "loop" /\ Count({"bkpt"}) = 1))

C5_Witness ==
    /\ res = "Err"
    /\ Count(WriteEvs) = 3
    /\ pc = "loop"
    /\ Count({"bkpt"}) = 1

------------------------------------------------------------------------------
(* C6 *)

------------------------------------------------------------------------------
(* C7 *)

\* C7: the only channel the handler opens and writes to is the host's
\* standard error.
C7_OpensStderr == \A i \in Positions(OpenEvs) : trace[i] = "open_stderr"

------------------------------------------------------------------------------
(* C8 *)

\* C8: the steps run in strict sequence: the breakpoint is executed exactly
\* once, after the open attempt and every attempted write, and right before
\* the loop is entered; no channel operation follows the breakpoint.
C8_StrictSequence ==
    /\ [](/\ \E k \in 0..5 : IsPrefix(HandlerTrace, Append(WritesUpTo(k), "bkpt"))
          /\ Count({"bkpt"}) <= 1
          /\ pc = "loop" <=> Count({"bkpt"}) = 1
          /\ Count({"bkpt"}) = 1 =>
                /\ trace[Len(trace)] = "bkpt"
                /\ Count(OpenEvs) = 1
                /\ hstdout = "Ok" => res # "None")
    /\ [][Count({"bkpt"}) = 1 => (trace' = trace /\ host' = host)]_vars

C8_Witness ==
    /\ pc = "loop"
    /\ hstdout = "Ok"
    /\ HandlerTrace = Append(WritesUpTo(4), "bkpt")

------------------------------------------------------------------------------
(* C9 *)

\* C9: the interrupt mask is written exactly once and never cleared again:
\* after the handler's first statement the interrupts are masked in every
\* state, so no interrupt service routine runs between or after the channel
\* operations, the breakpoint and the loop.
C9_MaskOnce ==
    /\ [](/\ Count({"cpsid"}) <= 1
          /\ pc # "disable" => (primask /\ Count({"cpsid"}) = 1)
          /\ \A i \in Positions({"cpsid"}) : \A j \in Positions({"isr"}) : j < i)
    /\ [][primask => primask']_vars

C9_Witness ==
    /\ Count({"isr"}) = MaxIsr
    /\ pc = "loop"
    /\ primask

------------------------------------------------------------------------------
(* C10 *)

\* C10 as stated: in every state the text the channel has accepted is the
\* concatenation of the first k of the five segments, for some k.
C10_SegmentPrefix == \E k \in 0..5 : host = Segments(k)

\* C10 as amended: the writes short-circuit on the first failure, so no
\* segment after the failed one is attempted; the text the channel has
\* accepted is a prefix of the report line, the segments before the failed
\* one whole and the failed one possibly in part; the complete line appears
\* only if all five writes succeed.
C10_ShortCircuitPrefix ==
    /\ [](/\ IsPrefix(host, Report(args, file, line, col))
          /\ host = Report(args, file, line, col) => res = "Ok"
          /\ hstdout = "Ok" =>
                \E k \in 0..5 :
                    /\ HandlerTrace \in {WritesUpTo(k), Append(WritesUpTo(k), "bkpt")}
                    /\ IsPrefix(Segments(IF res = "Err" THEN k - 1 ELSE k), host)
                    /\ IsPrefix(host, Segments(k))
                    /\ res = "None" => host = Segments(k))
    /\ [][res = "Err" => (host' = host /\ Count(WriteEvs)' = Count(WriteEvs))]_vars

C10_Witness ==
    /\ res = "Err"
    /\ pc = "loop"
    /\ ~ \E k \in 0..5 : host = Segments(k)
    /\ Count(WriteEvs) = 5

====
